---- MODULE Spec2Model ----
(***************************************************************************)
(* Family tree: the graph kept by DataManager (data_manager.py), the       *)
(* layout computed by LayoutEngine (layout_engine.py) and the kinship      *)
(* queries of RelationshipCalculator (relationship_calculator.py).         *)
(*                                                                         *)
(* Person ids are the decimal strings "1", "2", ... handed out by          *)
(* add_person; they are modelled by the numbers they spell.  The layout    *)
(* is computed for ids of one digit only, so the string order used by its  *)
(* sorted() is the numeric order.  None (no father, no mother) is 0.       *)
(*                                                                         *)
(* The graph is a networkx DiGraph: one edge per ordered pair of nodes,    *)
(* so adding an edge u->v of one type only changes the type of an edge     *)
(* u->v that is there already.  The edges out of a node are enumerated in  *)
(* the order in which they were first added, so adj[u] is a sequence.      *)
(*                                                                         *)
(* Coordinates are Python floats.  Every value the layout computes is a    *)
(* multiple of 1/Scale and far below 2^53, so it is exact; the model keeps *)
(* it as the integer number of 1/Scale units.                              *)
(***************************************************************************)
EXTENDS Integers, Sequences, FiniteSets, TLC

\* ------------------------------------------------------------------ bounds
\* Persons ever created in one session (ids 1..MaxPersons).
MaxPersons == 4
\* Relation-editing operations (add_parent, add_partner, add_child,
\* delete_person) in one session.
MaxEdits == 2
\* Persons of the families the tie between common ancestors is looked for in.
TiePersons == 5
\* Persons of the families the kinship queries are run on.
KinPersons == 4
\* Persons of the single line of descent the kinship queries are run on.
ChainLength == 12
\* Persons of the graph that is edited under a living calculator.
CachePersons == 3
\* Pairs whose answers one calculator keeps in a cache.
MaxCached == 1

MaxId == IF MaxPersons >= ChainLength THEN MaxPersons ELSE ChainLength

Ids == 1..MaxId

VARIABLES
    nodes,            \* graph.nodes(): the ids of the persons
    father,           \* graph.nodes[n]['father'], 0 for None or unset
    mother,           \* graph.nodes[n]['mother'], 0 for None or unset
    adj,              \* graph.adj: adj[u] lists <<v, type>> for each edge u->v
    next_person_id,   \* DataManager.next_person_id
    edits,            \* relation-editing operations done so far
    generation_cache,    \* RelationshipCalculator.generation_cache
    relationship_cache,  \* RelationshipCalculator.relationship_cache
    ret,              \* what the last call of a query returned
    label,            \* graph.nodes[n]['label'], "" for an id that is no node
    project_file,     \* the content of the file family.tree of the project
    issued            \* the ids add_person has returned, in the order of the calls

vars == <<nodes, father, mother, adj, next_person_id, edits,
          generation_cache, relationship_cache, ret, label, project_file, issued>>

calc_vars == <<generation_cache, relationship_cache>>

graph_vars == <<nodes, father, mother, adj>>

NoRet == [op |-> "none"]

\* No label: the ids that are no nodes, and the persons of the graphs that
\* are given to a calculator, which does not read the label.
NoLabels == [n \in Ids |-> ""]

\* The project directory without the file family.tree.
NoFile == [exists |-> FALSE]

\* ------------------------------------------------------- networkx DiGraph

REL_PARTNER == "partner"
REL_CHILD == "child"

\* The position of the edge u->v in a[u], 0 when there is no such edge.
edge_index(a, u, v) ==
    IF \E i \in 1..Len(a[u]) : a[u][i][1] = v
    THEN CHOOSE i \in 1..Len(a[u]) : a[u][i][1] = v
    ELSE 0

\* graph.add_edge(u, v, type=t): a new edge goes to the end of a[u]; an edge
\* that is there keeps its place and gets the type t.
add_edge(a, u, v, t) ==
    LET i == edge_index(a, u, v) IN
    IF i = 0 THEN [a EXCEPT ![u] = Append(@, <<v, t>>)]
    ELSE [a EXCEPT ![u][i] = <<v, t>>]

\* graph.remove_node(n): the edges out of n and into n go with it.
remove_node(a, n) ==
    [u \in Ids |-> IF u = n THEN <<>>
                   ELSE SelectSeq(a[u], LAMBDA e : e[1] # n)]

\* [v for u, v, a in graph.edges(n, data=True) if a.get('type') == t]
edges_of_type(n, t) ==
    LET es == SelectSeq(adj[n], LAMBDA e : e[2] = t) IN
    [i \in 1..Len(es) |-> es[i][1]]

Range(s) == {s[i] : i \in 1..Len(s)}

\* ----------------------------------------------------------- LayoutEngine

NODE_WIDTH == 140
NODE_HEIGHT == 45
H_GAP == 30
V_GAP == 80
PARTNER_GAP == 8

\* One coordinate unit is Scale model units.
Scale == 2 ^ 10

\* v / 2 for a float v.  The quotient is exact: a value that is not an even
\* number of model units has no value here, and the evaluation stops.
Half(v) == IF v % 2 = 0 THEN v \div 2 ELSE CHOOSE z \in {} : TRUE

Max(a, b) == IF a >= b THEN a ELSE b

\* The orders in which a Python set of person ids may be enumerated.  The
\* order of a set of strings is fixed by the string hashes of the process
\* (PYTHONHASHSEED); an order is modelled by the sequence of all ids that the
\* enumeration of every set follows.  Perms(S) is the set of the sequences
\* that list every element of S once.
RECURSIVE Perms(_)
Perms(S) ==
    IF S = {} THEN {<<>>}
    ELSE UNION {{<<x>> \o p : p \in Perms(S \ {x})} : x \in S}

\* list(S) for a set S of ids, enumerated in the order h.
list_of(S, h) == SelectSeq(h, LAMBDA v : v \in S)

\* sorted(S) for a set S of ids.
RECURSIVE sorted(_)
sorted(S) ==
    IF S = {} THEN <<>>
    ELSE LET m == CHOOSE x \in S : \A y \in S : x <= y
         IN <<m>> \o sorted(S \ {m})

\* _get_parents(graph, n): (father, mother).
_get_parents(n) == <<father[n], mother[n]>>

\* _get_children(graph, n): the ends of the child edges out of n, in the
\* order of the edges.
_get_children(n) == edges_of_type(n, REL_CHILD)

\* _get_partners(graph, n): the ends of the partner edges out of n and the
\* other recorded parents of the children of n, as a set.
_get_partners(n) ==
    Range(edges_of_type(n, REL_PARTNER))
    \cup {p \in {father[c] : c \in Range(_get_children(n))} : p # 0 /\ p # n}
    \cup {p \in {mother[c] : c \in Range(_get_children(n))} : p # 0 /\ p # n}

\* A dict is a sequence of <<key, value>> items in insertion order.
keys(d) == {d[i][1] : i \in 1..Len(d)}
get(d, k) == (CHOOSE i \in 1..Len(d) : d[i][1] = k)
value(d, k) == d[get(d, k)][2]

\* One loop of _calculate_all_generations: every x of xs that has no
\* generation yet gets g and is appended to the queue.  st = [gens, q].
RECURSIVE discover(_, _, _)
discover(xs, g, st) ==
    IF xs = <<>> THEN st
    ELSE LET x == Head(xs) IN
         IF x \in DOMAIN st.gens THEN discover(Tail(xs), g, st)
         ELSE discover(Tail(xs), g,
                  [gens |-> st.gens @@ (x :> g), q |-> Append(st.q, <<x, g>>)])

\* The while loop of _calculate_all_generations.
RECURSIVE bfs_generations(_, _)
bfs_generations(st, h) ==
    IF st.q = <<>> THEN st.gens
    ELSE LET curr == Head(st.q)[1]
             g == Head(st.q)[2]
             s0 == [gens |-> st.gens, q |-> Tail(st.q)]
             s1 == discover(SelectSeq(_get_parents(curr), LAMBDA x : x # 0), g - 1, s0)
             s2 == discover(_get_children(curr), g + 1, s1)
             s3 == discover(list_of(_get_partners(curr), h), g, s2)
         IN bfs_generations(s3, h)

\* _calculate_all_generations(graph, focus_id): the generation of every
\* node, as a function from ids.
_calculate_all_generations(focus_id, h) ==
    LET gens == bfs_generations([gens |-> (focus_id :> 0), q |-> <<<<focus_id, 0>>>>], h)
    IN [n \in DOMAIN gens \cup nodes |-> IF n \in DOMAIN gens THEN gens[n] ELSE 0]

\* generations.get(n): the generation in a tuple, the empty tuple for the
\* None of a missing key, which equals no generation.
gen_get(generations, n) == IF n \in DOMAIN generations THEN <<generations[n]>> ELSE <<>>

\* generations.get(n, 0)
gen_get0(generations, n) == IF n \in DOMAIN generations THEN generations[n] ELSE 0

\* _find_effective_roots(graph): the nodes without father and without mother,
\* in the order of graph.nodes().
_find_effective_roots ==
    sorted({n \in nodes : father[n] = 0 /\ mother[n] = 0})

\* _is_connected_to(graph, start, target, visited): [found, visited].
RECURSIVE _is_connected_to(_, _, _, _)
RECURSIVE connected_any(_, _, _, _)
_is_connected_to(start, target, visited, h) ==
    IF start = target THEN [found |-> TRUE, visited |-> visited]
    ELSE IF start \in visited THEN [found |-> FALSE, visited |-> visited]
    ELSE LET v1 == visited \cup {start}
             r1 == connected_any(_get_children(start), target, v1, h)
         IN IF r1.found THEN r1
            ELSE connected_any(list_of(_get_partners(start), h), target, r1.visited, h)

\* The for loops of _is_connected_to: the first of xs that is connected.
connected_any(xs, target, visited, h) ==
    IF xs = <<>> THEN [found |-> FALSE, visited |-> visited]
    ELSE LET r == _is_connected_to(Head(xs), target, visited, h) IN
         IF r.found THEN r ELSE connected_any(Tail(xs), target, r.visited, h)

\* roots.sort(key = 0 if connected to the focus else 1): a stable sort.
sort_roots(roots, focus_id, h) ==
    LET conn(r) == _is_connected_to(r, focus_id, {}, h).found IN
    SelectSeq(roots, conn) \o SelectSeq(roots, LAMBDA r : ~conn(r))

\* The family members left to right from start_x, each NODE_WIDTH +
\* PARTNER_GAP after the one before, all at height y.
place_family(family, start_x, y) ==
    [i \in 1..Len(family) |->
        <<family[i],
          <<start_x + (i - 1) * (NODE_WIDTH + PARTNER_GAP) * Scale
                + Half(NODE_WIDTH * Scale), y>>>>]

MinOf(S) == CHOOSE x \in S : \A y \in S : x <= y
MaxOf(S) == CHOOSE x \in S : \A y \in S : x >= y

\* A centre that leaves the partners out: the x of the node itself.
subtree_center_alone(node_id, positions, generations) ==
    IF node_id \notin keys(positions) THEN 0 ELSE value(positions, node_id)[1]

\* _get_subtree_center(node_id, positions, graph, generations): the middle
\* of the x-extent of the node and its positioned partners of its generation.
_get_subtree_center(node_id, positions, generations) ==
    IF node_id \notin keys(positions) THEN 0
    ELSE LET gen == gen_get0(generations, node_id)
             family_x == {value(positions, node_id)[1]}
                 \cup {value(positions, p)[1] :
                         p \in {q \in _get_partners(node_id) :
                                  /\ q \in keys(positions)
                                  /\ gen_get(generations, q) = <<gen>>}}
         IN Half(MinOf(family_x) + MaxOf(family_x))

\* _layout_tree(graph, node_id, generations, min_gen, visited, x_offset):
\* [positions, width, visited, calls], visited being the shared set after
\* the call and calls the record of the calls that placed a family, this
\* one last: its node, x_offset and family, the children it placed, and the
\* (positions, width) it returned.
RECURSIVE _layout_tree(_, _, _, _, _, _)
RECURSIVE layout_children(_, _, _, _, _)

\* The loop over children_list.  st = [positions, children_data, child_x,
\* total_children_width, visited, calls].
layout_children(children_list, generations, min_gen, h, st) ==
    IF children_list = <<>> THEN st
    ELSE LET child_id == Head(children_list)
             r == _layout_tree(child_id, generations, min_gen, st.visited, st.child_x, h)
             child_center == _get_subtree_center(child_id, r.positions, generations)
         IN layout_children(Tail(children_list), generations, min_gen, h,
                IF r.width > 0
                THEN [positions |-> st.positions \o r.positions,
                      children_data |-> Append(st.children_data,
                                               <<child_id, child_center, r.width>>),
                      child_x |-> st.child_x + r.width + H_GAP * Scale,
                      total_children_width |->
                          st.total_children_width + r.width + H_GAP * Scale,
                      visited |-> r.visited,
                      calls |-> st.calls \o r.calls]
                ELSE [st EXCEPT !.visited = r.visited])

_layout_tree(node_id, generations, min_gen, visited, x_offset, h) ==
    IF node_id \in visited
    THEN [positions |-> <<>>, width |-> 0, visited |-> visited, calls |-> <<>>]
    ELSE
    LET gen == gen_get0(generations, node_id)
        y == (gen - min_gen) * (NODE_HEIGHT + V_GAP) * Scale
        partners == SelectSeq(list_of(_get_partners(node_id), h),
                        LAMBDA p : p \notin visited /\ gen_get(generations, p) = <<gen>>)
        family == <<node_id>> \o partners
        visited1 == visited \cup Range(family)
        all_children == UNION {Range(_get_children(parent)) : parent \in Range(family)}
        children_list == sorted({c \in all_children : c \notin visited1})
        family_width == (Len(family) * NODE_WIDTH + (Len(family) - 1) * PARTNER_GAP) * Scale
    IN
    IF children_list = <<>>
    THEN [positions |-> place_family(family, x_offset, y),
          width |-> family_width, visited |-> visited1,
          calls |-> <<[node_id |-> node_id, x_offset |-> x_offset, family |-> family,
                       children |-> <<>>,
                       positions |-> place_family(family, x_offset, y),
                       width |-> family_width]>>]
    ELSE
    LET st == layout_children(children_list, generations, min_gen, h,
                  [positions |-> <<>>, children_data |-> <<>>, child_x |-> x_offset,
                   total_children_width |-> 0, visited |-> visited1, calls |-> <<>>])
        total_children_width ==
            IF st.total_children_width > 0
            THEN st.total_children_width - H_GAP * Scale ELSE st.total_children_width
        children_data == st.children_data
        leftmost == children_data[1][2]
        rightmost == children_data[Len(children_data)][2]
        children_center == Half(leftmost + rightmost)
        family_start_x == IF children_data # <<>>
                          THEN children_center - Half(family_width) ELSE x_offset
    IN [positions |-> st.positions \o place_family(family, family_start_x, y),
        width |-> Max(family_width, total_children_width),
        visited |-> st.visited,
        calls |-> Append(st.calls,
                     [node_id |-> node_id, x_offset |-> x_offset, family |-> family,
                      children |-> [i \in 1..Len(children_data) |-> children_data[i][1]],
                      positions |-> st.positions \o place_family(family, family_start_x, y),
                      width |-> Max(family_width, total_children_width)])]

\* Pushes by the shortfall alone, without the 2 added to it.
RECURSIVE push_collisions_exact(_, _, _)
push_collisions_exact(nodes_, i, pos) ==
    IF i >= Len(nodes_) THEN pos
    ELSE LET x1 == pos[nodes_[i]][1]
             x2 == pos[nodes_[i + 1]][1]
             min_dist == (NODE_WIDTH + PARTNER_GAP) * Scale
             push == min_dist - (x2 - x1)
             later == {nodes_[j] : j \in (i + 1)..Len(nodes_)}
         IN push_collisions_exact(nodes_, i + 1,
                IF x2 - x1 < min_dist
                THEN [n \in DOMAIN pos |->
                        IF n \in later THEN <<pos[n][1] + push, pos[n][2]>> ELSE pos[n]]
                ELSE pos)

\* The pushes of _resolve_collisions in one generation: nodes is the list
\* sorted by x, i the index of the left node of the pair looked at.
RECURSIVE push_collisions(_, _, _)
push_collisions(nodes_, i, pos) ==
    IF i >= Len(nodes_) THEN pos
    ELSE LET x1 == pos[nodes_[i]][1]
             x2 == pos[nodes_[i + 1]][1]
             min_dist == (NODE_WIDTH + PARTNER_GAP) * Scale
             push == min_dist - (x2 - x1) + 2 * Scale
             later == {nodes_[j] : j \in (i + 1)..Len(nodes_)}
         IN push_collisions(nodes_, i + 1,
                IF x2 - x1 < min_dist
                THEN [n \in DOMAIN pos |->
                        IF n \in later THEN <<pos[n][1] + push, pos[n][2]>> ELSE pos[n]]
                ELSE pos)

\* sorted(ns, key = x): a stable sort, equal x keep the order of ns.
RECURSIVE sort_by_x(_, _)
sort_by_x(ns, pos) ==
    IF ns = <<>> THEN <<>>
    ELSE LET i == CHOOSE k \in 1..Len(ns) :
                    /\ \A j \in 1..Len(ns) : pos[ns[k]][1] <= pos[ns[j]][1]
                    /\ \A j \in 1..(k - 1) : pos[ns[j]][1] # pos[ns[k]][1]
         IN <<ns[i]>> \o sort_by_x(SubSeq(ns, 1, i - 1) \o SubSeq(ns, i + 1, Len(ns)), pos)

\* _resolve_collisions(positions, generations): order is the insertion order
\* of the keys of positions; the generations are handled one after the other
\* and no push in one generation moves a node of another.
RECURSIVE resolve_gens(_, _, _, _)
resolve_gens(gen_list, order, generations, pos) ==
    IF gen_list = <<>> THEN pos
    ELSE LET by_gen == SelectSeq(order,
                           LAMBDA n : gen_get0(generations, n) = Head(gen_list))
         IN resolve_gens(Tail(gen_list), order, generations,
                push_collisions(sort_by_x(by_gen, pos), 1, pos))

\* A layout that leaves out the collision pass: the positions as placed.
unresolved_collisions(positions, generations) ==
    [n \in keys(positions) |-> value(positions, n)]

_resolve_collisions(positions, generations) ==
    LET order == [i \in 1..Len(positions) |-> positions[i][1]]
        pos == [n \in keys(positions) |-> value(positions, n)]
        gen_list == sorted({gen_get0(generations, n) : n \in keys(positions)})
    IN resolve_gens(gen_list, order, generations, pos)

\* The loop over the roots in calculate_layout.  st = [positions, visited,
\* current_x, calls].
RECURSIVE layout_roots(_, _, _, _, _)
layout_roots(roots, generations, min_gen, h, st) ==
    IF roots = <<>> THEN st
    ELSE IF Head(roots) \in st.visited
    THEN layout_roots(Tail(roots), generations, min_gen, h, st)
    ELSE LET r == _layout_tree(Head(roots), generations, min_gen, st.visited, 0, h)
             moved == [i \in 1..Len(r.positions) |->
                         <<r.positions[i][1],
                           <<r.positions[i][2][1] + st.current_x, r.positions[i][2][2]>>>>]
         IN layout_roots(Tail(roots), generations, min_gen, h,
                [positions |-> st.positions \o moved,
                 visited |-> r.visited,
                 current_x |-> st.current_x + r.width + NODE_WIDTH * 2 * Scale,
                 calls |-> st.calls \o r.calls])

\* A guard that looks at the graph only: not graph.
returns_none_if_empty(focus_node_id) == nodes = {}

\* The guard of calculate_layout: not graph or not
\* graph.has_node(focus_node_id).  An empty DiGraph is false.
returns_none(focus_node_id) == nodes = {} \/ focus_node_id \notin nodes

\* The positions calculate_layout holds when the loop over the roots is
\* done, before _resolve_collisions: a dict in insertion order.
place_roots(focus_node_id, h) ==
    LET generations == _calculate_all_generations(focus_node_id, h)
        min_gen == MinOf({generations[n] : n \in DOMAIN generations})
        roots == sort_roots(_find_effective_roots, focus_node_id, h)
    IN layout_roots(roots, generations, min_gen, h,
           [positions |-> <<>>, visited |-> {}, current_x |-> 0, calls |-> <<>>]).positions

\* The same loop with what it leaves: the positions, and the calls of
\* _layout_tree that placed a family, in the order of their return.
place_all_roots(focus_node_id, h) ==
    LET generations == _calculate_all_generations(focus_node_id, h)
        min_gen == MinOf({generations[n] : n \in DOMAIN generations})
        roots == sort_roots(_find_effective_roots, focus_node_id, h)
    IN layout_roots(roots, generations, min_gen, h,
           [positions |-> <<>>, visited |-> {}, current_x |-> 0, calls |-> <<>>])

\* calculate_layout(graph, focus_node_id), the sets enumerated in the order
\* h: "None", or the position map as a function from ids to <<x, y>>.
calculate_layout(focus_node_id, h) ==
    IF returns_none(focus_node_id) THEN "None"
    ELSE _resolve_collisions(place_roots(focus_node_id, h),
                             _calculate_all_generations(focus_node_id, h))

\* ------------------------------------------------- RelationshipCalculator

\* The sentinel returned for persons without a known relation.
Unrelated == 999

\* The while loop of _get_all_ancestors_with_depth: queue holds <<id, depth>>.
RECURSIVE ancestors_loop(_, _, _, _)
ancestors_loop(queue, visited, ancestors, person_id) ==
    IF queue = <<>> THEN ancestors
    ELSE LET current_id == Head(queue)[1]
             depth == Head(queue)[2]
             father_id == father[current_id]
             mother_id == mother[current_id]
             q1 == IF father_id # 0 /\ father_id \in nodes
                   THEN Append(Tail(queue), <<father_id, depth + 1>>) ELSE Tail(queue)
             q2 == IF mother_id # 0 /\ mother_id \in nodes
                   THEN Append(q1, <<mother_id, depth + 1>>) ELSE q1
         IN IF current_id \in visited
            THEN ancestors_loop(Tail(queue), visited, ancestors, person_id)
            ELSE ancestors_loop(q2, visited \cup {current_id},
                     IF current_id # person_id
                     THEN ancestors @@ (current_id :> depth) ELSE ancestors,
                     person_id)

\* _get_all_ancestors_with_depth(person_id): the dict ancestor -> depth, as a
\* function on the ancestors found.
_get_all_ancestors_with_depth(person_id) ==
    ancestors_loop(<<<<person_id, 0>>>>, {}, <<>>, person_id)

\* A loop that keeps the common ancestor enumerated last, whatever its
\* distance.
RECURSIVE last_ancestor_loop(_, _, _, _)
last_ancestor_loop(order, focus_ancestors, person_ancestors, acc) ==
    IF order = <<>> THEN acc
    ELSE last_ancestor_loop(Tail(order), focus_ancestors, person_ancestors,
             [min_distance |-> focus_ancestors[Head(order)] + person_ancestors[Head(order)],
              closest_ancestor |-> Head(order)])

\* The loop of get_generation_level over common_ancestors, enumerated in
\* the order given: [min_distance, closest_ancestor], where 0 stands for the
\* initial None and Unrelated * 2 for the initial float('inf').
RECURSIVE closest_loop(_, _, _, _)
closest_loop(order, focus_ancestors, person_ancestors, acc) ==
    IF order = <<>> THEN acc
    ELSE LET ancestor == Head(order)
             total_distance == focus_ancestors[ancestor] + person_ancestors[ancestor]
         IN closest_loop(Tail(order), focus_ancestors, person_ancestors,
                IF total_distance < acc.min_distance
                THEN [min_distance |-> total_distance, closest_ancestor |-> ancestor]
                ELSE acc)

\* get_generation_level(focus_id, person_id) of a calculator with an empty
\* cache, common_ancestors being enumerated in the order given.
generation_level(focus_id, person_id, order) ==
    LET focus_ancestors == _get_all_ancestors_with_depth(focus_id)
        person_ancestors == _get_all_ancestors_with_depth(person_id)
        closest_ancestor ==
            closest_loop(order, focus_ancestors, person_ancestors,
                [min_distance |-> Unrelated * 2, closest_ancestor |-> 0]).closest_ancestor
    IN IF person_id \in DOMAIN focus_ancestors THEN 0 - focus_ancestors[person_id]
       ELSE IF focus_id \in DOMAIN person_ancestors THEN person_ancestors[focus_id]
       ELSE IF DOMAIN focus_ancestors \cap DOMAIN person_ancestors = {} THEN Unrelated
       ELSE person_ancestors[closest_ancestor] - focus_ancestors[closest_ancestor]

\* set(focus_ancestors.keys()) & set(person_ancestors.keys())
common_ancestors(focus_id, person_id) ==
    DOMAIN _get_all_ancestors_with_depth(focus_id)
        \cap DOMAIN _get_all_ancestors_with_depth(person_id)

\* The orders in which the set S is enumerated that the loop over the
\* common ancestors can tell apart: the loop keeps the first ancestor of
\* least total distance, and any element of S can be the first.
FirstOrders(S) ==
    IF S = {} THEN {<<>>} ELSE {<<c>> \o sorted(S \ {c}) : c \in S}

\* A generation level without its sign: the number of generations between
\* the two persons.
unsigned_generation_level(focus_id, person_id) ==
    {IF v < 0 THEN 0 - v ELSE v :
        v \in {generation_level(focus_id, person_id, order) :
                  order \in FirstOrders(common_ancestors(focus_id, person_id))}}

\* The values get_generation_level(focus_id, person_id) can return: one for
\* each order in which the set common_ancestors can be enumerated.
get_generation_level(focus_id, person_id) ==
    {generation_level(focus_id, person_id, order) :
        order \in FirstOrders(common_ancestors(focus_id, person_id))}

\* min over the common ancestors of the sum of the two depths.
RECURSIVE min_degree_loop(_, _, _, _)
min_degree_loop(S, focus_ancestors, person_ancestors, min_degree) ==
    IF S = {} THEN min_degree
    ELSE LET ancestor == CHOOSE a \in S : TRUE
             degree == focus_ancestors[ancestor] + person_ancestors[ancestor]
         IN min_degree_loop(S \ {ancestor}, focus_ancestors, person_ancestors,
                IF degree < min_degree THEN degree ELSE min_degree)

\* A degree without the test for an empty set of common ancestors: the
\* minimum over no ancestor is the initial float('inf').
degree_without_empty_test(focus_id, person_id) ==
    LET focus_ancestors == _get_all_ancestors_with_depth(focus_id)
        person_ancestors == _get_all_ancestors_with_depth(person_id)
        common == DOMAIN focus_ancestors \cap DOMAIN person_ancestors
    IN IF focus_id = person_id THEN 0
       ELSE IF person_id \in DOMAIN focus_ancestors THEN focus_ancestors[person_id]
       ELSE IF focus_id \in DOMAIN person_ancestors THEN person_ancestors[focus_id]
       ELSE min_degree_loop(common, focus_ancestors, person_ancestors, Unrelated * 2)

\* A degree that looks for the person among the ancestors of the focus and
\* never for the focus among the ancestors of the person.
degree_without_descendants(focus_id, person_id) ==
    LET focus_ancestors == _get_all_ancestors_with_depth(focus_id)
        person_ancestors == _get_all_ancestors_with_depth(person_id)
        common == DOMAIN focus_ancestors \cap DOMAIN person_ancestors
    IN IF focus_id = person_id THEN 0
       ELSE IF person_id \in DOMAIN focus_ancestors THEN focus_ancestors[person_id]
       ELSE IF common = {} THEN Unrelated
       ELSE min_degree_loop(common, focus_ancestors, person_ancestors, Unrelated * 2)

\* get_degree_of_relationship(focus_id, person_id)
get_degree_of_relationship(focus_id, person_id) ==
    LET focus_ancestors == _get_all_ancestors_with_depth(focus_id)
        person_ancestors == _get_all_ancestors_with_depth(person_id)
        common == DOMAIN focus_ancestors \cap DOMAIN person_ancestors
    IN IF focus_id = person_id THEN 0
       ELSE IF person_id \in DOMAIN focus_ancestors THEN focus_ancestors[person_id]
       ELSE IF focus_id \in DOMAIN person_ancestors THEN person_ancestors[focus_id]
       ELSE IF common = {} THEN Unrelated
       ELSE min_degree_loop(common, focus_ancestors, person_ancestors, Unrelated * 2)

\* Siblings found with the father compared to the mother and the mother to
\* the father.
get_siblings_crossed(person_id) ==
    {node_id \in nodes \ {person_id} :
        /\ father[person_id] # 0 /\ mother[person_id] # 0
        /\ father[node_id] = mother[person_id]
        /\ mother[node_id] = father[person_id]}

\* Siblings found by either parent, whatever is recorded for the person.
get_siblings_either(person_id) ==
    {node_id \in nodes \ {person_id} :
        \/ father[person_id] # 0 /\ father[node_id] = father[person_id]
        \/ mother[person_id] # 0 /\ mother[node_id] = mother[person_id]}

\* get_siblings(person_id)
get_siblings(person_id) ==
    LET father_id == father[person_id]
        mother_id == mother[person_id]
    IN IF father_id = 0 /\ mother_id = 0 THEN {}
       ELSE {node_id \in nodes \ {person_id} :
               IF father_id # 0 /\ mother_id # 0
               THEN father[node_id] = father_id /\ mother[node_id] = mother_id
               ELSE IF father_id # 0 /\ father[node_id] = father_id THEN TRUE
               ELSE mother_id # 0 /\ mother[node_id] = mother_id}

\* get_children(person_id): the nodes whose father or mother is the person.
get_children(person_id) ==
    {node_id \in nodes : father[node_id] = person_id \/ mother[node_id] = person_id}

\* The partners by partner edges alone.
get_partners_by_edges(person_id) ==
    Range(edges_of_type(person_id, REL_PARTNER))

\* get_partners(person_id): the ends of the partner edges out of the person
\* and the other recorded parents of the person's children.
get_partners(person_id) ==
    Range(edges_of_type(person_id, REL_PARTNER))
    \cup {f \in {father[c] : c \in get_children(person_id)} : f # 0 /\ f # person_id}
    \cup {m \in {mother[c] : c \in get_children(person_id)} : m # 0 /\ m # person_id}

\* _determine_relationship(focus_id, person_id, generation, degree): the
\* pair (category, label) as <<category, text, number>>.  The Ukrainian
\* label is written in Latin letters; number is the number formatted into
\* the label, 0 for a label without one.
_determine_relationship(focus_id, person_id, generation, degree) ==
    IF person_id \in get_partners(focus_id) THEN <<"partner", "Partner/Druzhyna", 0>>
    ELSE IF generation < 0 THEN
        IF degree = 1 THEN
            IF father[focus_id] = person_id THEN <<"parent", "Batko", 0>>
            ELSE IF mother[focus_id] = person_id THEN <<"parent", "Maty", 0>>
            ELSE <<"parent", "Batko/Maty", 0>>
        ELSE IF degree = 2 THEN <<"parent", "Didus/Babusya", 0>>
        ELSE IF degree = 3 THEN <<"parent", "Pradid/Prababusya", 0>>
        ELSE IF degree = 4 THEN <<"parent", "Prapradid/Praprababusya", 0>>
        ELSE IF degree <= 10 THEN <<"parent", "Pra()did/babusya", degree - 2>>
        ELSE <<"distant", "Ne vyznacheno", 0>>
    ELSE IF generation > 0 THEN
        IF degree = 1 THEN <<"child", "Syn/Dochka", 0>>
        ELSE IF degree = 2 THEN <<"child", "Onuk/Onuka", 0>>
        ELSE IF degree = 3 THEN <<"child", "Pravnuk/Pravnuchka", 0>>
        ELSE IF degree = 4 THEN <<"child", "Prapravnuk/Prapravnuchka", 0>>
        ELSE IF degree <= 10 THEN <<"child", "Pra()vnuk/vnuchka", degree - 2>>
        ELSE <<"distant", "Ne vyznacheno", 0>>
    ELSE IF generation = 0 /\ person_id \in get_siblings(focus_id) /\ degree = 2
        THEN <<"sibling", "Brat/Sestra", 0>>
    ELSE IF generation = 0 /\ degree = 4 THEN <<"sibling", "Dvoyuridnyi brat/sestra", 0>>
    ELSE IF generation = 0 /\ degree = 6 THEN <<"sibling", "Troyuridnyi brat/sestra", 0>>
    ELSE IF generation = 0 /\ degree > 6 /\ degree <= 12 /\ degree % 2 = 0
        THEN <<"sibling", "-yuridnyi brat/sestra", (degree \div 2) - 1>>
    ELSE IF generation = 0 /\ degree > 12 THEN <<"distant", "Ne vyznacheno", 0>>
    ELSE IF generation = -1 /\ degree = 3 THEN <<"extended", "Dyadko/Titka", 0>>
    ELSE IF generation = -1 /\ degree > 3 /\ degree <= 10 THEN
        LET n == (degree - 2) \div 2 IN
        IF n > 2 THEN <<"extended", "-yuridnyi dyadko/titka", n>>
        ELSE <<"extended", "Dvoyuridnyi dyadko/titka", 0>>
    ELSE IF generation = 1 /\ degree = 3 THEN <<"extended", "Pleminnyk/Pleminnytsya", 0>>
    ELSE IF generation = 1 /\ degree > 3 /\ degree <= 10 THEN
        LET n == (degree - 2) \div 2 IN
        IF n > 2 THEN <<"extended", "-yuridnyi pleminnyk/pleminnytsya", n>>
        ELSE <<"extended", "Dvoyuridnyi pleminnyk/pleminnytsya", 0>>
    ELSE IF degree < 15 THEN <<"distant", "Rodych (stupin sporidnenosti)", degree>>
    ELSE <<"distant", "Ne vyznacheno (ne povyazani)", 0>>

\* ------------------------------------------------------------ DataManager

\* DataManager.__init__: an empty graph, ids start at 1.
Init ==
    /\ nodes = {}
    /\ father = [n \in Ids |-> 0]
    /\ mother = [n \in Ids |-> 0]
    /\ adj = [n \in Ids |-> <<>>]
    /\ next_person_id = 1
    /\ label = NoLabels
    /\ issued = <<>>
    /\ project_file = NoFile
    /\ edits = 0
    /\ generation_cache = <<>>
    /\ relationship_cache = <<>>
    /\ ret = NoRet

\* add_person(name): the new node gets the next id, the label name and no
\* father or mother.
add_person(name) ==
    /\ next_person_id <= MaxPersons
    /\ nodes' = nodes \cup {next_person_id}
    /\ label' = [label EXCEPT ![next_person_id] = name]
    /\ next_person_id' = next_person_id + 1
    /\ ret' = NoRet
    /\ issued' = Append(issued, next_person_id)
    /\ UNCHANGED <<project_file, father, mother, adj, edits, calc_vars>>

\* add_parent(child_id, parent_id, parent_type): sets the attribute and adds
\* the edge parent->child of type child.  The callers (streamlit_app.py) never
\* pass the same person twice.
add_parent(child_id, parent_id, parent_type) ==
    /\ edits < MaxEdits
    /\ child_id \in nodes /\ parent_id \in nodes
    /\ child_id # parent_id
    /\ father' = IF parent_type = "father"
                 THEN [father EXCEPT ![child_id] = parent_id] ELSE father
    /\ mother' = IF parent_type = "mother"
                 THEN [mother EXCEPT ![child_id] = parent_id] ELSE mother
    /\ adj' = add_edge(adj, parent_id, child_id, REL_CHILD)
    /\ edits' = edits + 1
    /\ ret' = NoRet
    /\ UNCHANGED <<issued, label, project_file, nodes, next_person_id, calc_vars>>

\* add_partner(person1_id, person2_id): the two edges of type partner.
add_partner(person1_id, person2_id) ==
    /\ edits < MaxEdits
    /\ person1_id \in nodes /\ person2_id \in nodes
    /\ person1_id # person2_id
    /\ adj' = add_edge(add_edge(adj, person1_id, person2_id, REL_PARTNER),
                       person2_id, person1_id, REL_PARTNER)
    /\ edits' = edits + 1
    /\ ret' = NoRet
    /\ UNCHANGED <<issued, label, project_file, nodes, father, mother, next_person_id, calc_vars>>

\* add_child(parent_id, child_id): the parent becomes the father if the child
\* has none, else the mother if the child has none; the edge is added always.
add_child(parent_id, child_id) ==
    /\ edits < MaxEdits
    /\ parent_id \in nodes /\ child_id \in nodes
    /\ parent_id # child_id
    /\ father' = IF father[child_id] = 0
                 THEN [father EXCEPT ![child_id] = parent_id] ELSE father
    /\ mother' = IF father[child_id] # 0 /\ mother[child_id] = 0
                 THEN [mother EXCEPT ![child_id] = parent_id] ELSE mother
    /\ adj' = add_edge(adj, parent_id, child_id, REL_CHILD)
    /\ edits' = edits + 1
    /\ ret' = NoRet
    /\ UNCHANGED <<issued, label, project_file, nodes, next_person_id, calc_vars>>

\* delete_person(person_id): clears the father/mother attributes that name
\* the person, then removes the node with its attributes and its edges.
delete_person(person_id) ==
    /\ edits < MaxEdits
    /\ person_id \in nodes
    /\ father' = [n \in Ids |->
           IF n = person_id \/ father[n] = person_id THEN 0 ELSE father[n]]
    /\ mother' = [n \in Ids |->
           IF n = person_id \/ mother[n] = person_id THEN 0 ELSE mother[n]]
    /\ nodes' = nodes \ {person_id}
    /\ label' = [label EXCEPT ![person_id] = ""]
    /\ adj' = remove_node(adj, person_id)
    /\ edits' = edits + 1
    /\ ret' = NoRet
    /\ UNCHANGED <<issued, project_file, next_person_id, calc_vars>>

\* The enumeration orders that can make a difference: every order of the
\* ids that stand in a set of two or more partners, the other ids behind
\* them (a set of fewer than two ids has one order).
HashOrders ==
    LET many == UNION {_get_partners(n) :
                          n \in {m \in nodes : Cardinality(_get_partners(m)) > 1}}
        others == (nodes \cup UNION {_get_partners(n) : n \in nodes}) \ many
    IN {p \o sorted(others) : p \in Perms(many)}

\* A call of LayoutEngine.calculate_layout(graph, focus_node_id) on the
\* graph of the DataManager.  ret keeps the value returned (none tells
\* whether it is None) and, next to it, the generation map the call computed
\* for the focus, the roots in the order the call went through them, the
\* persons in the order the call gave them a position, the positions
\* before _resolve_collisions, and the calls of _layout_tree.
CalculateLayout(focus_node_id, h) ==
    /\ \E placement \in {IF focus_node_id \in nodes
                          THEN place_all_roots(focus_node_id, h)
                          ELSE [positions |-> <<>>, calls |-> <<>>]} :
       ret' = [op |-> "calculate_layout", focus |-> focus_node_id,
               none |-> returns_none(focus_node_id),
               positions |-> calculate_layout(focus_node_id, h),
               generations |-> IF focus_node_id \in nodes
                               THEN _calculate_all_generations(focus_node_id, h)
                               ELSE <<>>,
               roots |-> IF focus_node_id \in nodes
                         THEN sort_roots(_find_effective_roots, focus_node_id, h)
                         ELSE <<>>,
               placed |-> [i \in 1..Len(placement.positions) |->
                             placement.positions[i][1]],
               before |-> placement.positions,
               calls |-> placement.calls]
    /\ UNCHANGED <<issued, label, project_file, nodes, father, mother, adj, next_person_id, edits, calc_vars>>

\* render_graph (streamlit_app.py) computes one layout for each state of the
\* graph it draws: the map returned is dropped by the next operation.  The
\* layout does not read the labels: the persons are added under one name.
Next ==
    \/ \E f \in Ids, h \in HashOrders : ret = NoRet /\ CalculateLayout(f, h)
    \/ add_person("Adam")
    \/ \E c \in Ids, p \in Ids, t \in {"father", "mother"} : add_parent(c, p, t)
    \/ \E a \in Ids, b \in Ids : add_partner(a, b)
    \/ \E p \in Ids, c \in Ids : add_child(p, c)
    \/ \E p \in Ids : delete_person(p)

Spec == Init /\ [][Next]_vars

\* ------------------------------------------ the project file family.tree

\* The names given to persons.
Names == {"Adam", "Eve"}
\* Persons created in the sessions that save and load the project.
SavePersons == 3
\* Calls of add_person in those sessions, the ids given again counted.
MaxIssued == 4

\* The links of nx.node_link_data: the edges out of the nodes ns, node by
\* node, the edges of a node in the order of its adjacency.
RECURSIVE links_of(_)
links_of(ns) ==
    IF ns = <<>> THEN <<>>
    ELSE [i \in 1..Len(adj[Head(ns)]) |->
             [source |-> Head(ns), target |-> adj[Head(ns)][i][1],
              type |-> adj[Head(ns)][i][2]]]
         \o links_of(Tail(ns))

\* A file without the labels of the persons.
node_link_data_unlabelled ==
    [exists |-> TRUE,
     nodes |-> [i \in 1..Cardinality(nodes) |->
                  [id |-> sorted(nodes)[i], label |-> "",
                   father |-> father[sorted(nodes)[i]],
                   mother |-> mother[sorted(nodes)[i]]]],
     links |-> links_of(sorted(nodes))]

\* json.dump(nx.node_link_data(graph, edges="links")): the nodes with their
\* attributes in the order of graph.nodes(), and the links.
node_link_data ==
    [exists |-> TRUE,
     nodes |-> [i \in 1..Cardinality(nodes) |->
                  [id |-> sorted(nodes)[i], label |-> label[sorted(nodes)[i]],
                   father |-> father[sorted(nodes)[i]],
                   mother |-> mother[sorted(nodes)[i]]]],
     links |-> links_of(sorted(nodes))]

\* The adjacency built by adding the links one after the other.
RECURSIVE add_links(_, _)
add_links(a, links) ==
    IF links = <<>> THEN a
    ELSE add_links(add_edge(a, Head(links).source, Head(links).target,
                            Head(links).type),
                   Tail(links))

\* nx.node_link_graph(json.load(f), edges="links"): the graph of the file.
node_link_graph(data) ==
    LET entry(n) == data.nodes[CHOOSE i \in 1..Len(data.nodes) : data.nodes[i].id = n]
        ids == {data.nodes[i].id : i \in 1..Len(data.nodes)}
    IN [nodes |-> ids,
        label |-> [n \in Ids |-> IF n \in ids THEN entry(n).label ELSE ""],
        father |-> [n \in Ids |-> IF n \in ids THEN entry(n).father ELSE 0],
        mother |-> [n \in Ids |-> IF n \in ids THEN entry(n).mother ELSE 0],
        adj |-> add_links([n \in Ids |-> <<>>], data.links)]

\* save_project(): the graph is written to the file of the project.
save_project ==
    /\ project_file' = node_link_data
    /\ ret' = [op |-> "save_project", value |-> TRUE]
    /\ UNCHANGED <<issued, nodes, father, mother, adj, label, next_person_id, edits, calc_vars>>

\* DataManager(username) followed by load_project(), as get_data_manager
\* does after the cached DataManager was dropped: the graph of the file
\* when there is one, else the empty graph; next_person_id follows the
\* greatest id.
load_project ==
    /\ IF project_file.exists
       THEN LET g == node_link_graph(project_file) IN
            /\ nodes' = g.nodes
            /\ label' = g.label
            /\ father' = g.father
            /\ mother' = g.mother
            /\ adj' = g.adj
            /\ next_person_id' = IF g.nodes = {} THEN 1 ELSE MaxOf(g.nodes) + 1
       ELSE /\ nodes' = {}
            /\ label' = NoLabels
            /\ father' = [n \in Ids |-> 0]
            /\ mother' = [n \in Ids |-> 0]
            /\ adj' = [n \in Ids |-> <<>>]
            /\ next_person_id' = 1
    /\ ret' = [op |-> "load_project", value |-> TRUE]
    /\ UNCHANGED <<issued, project_file, edits, calc_vars>>

NextSave ==
    \/ \E name \in Names :
          next_person_id <= SavePersons /\ Len(issued) < MaxIssued /\ add_person(name)
    \/ \E c \in Ids, p \in Ids, t \in {"father", "mother"} : add_parent(c, p, t)
    \/ \E a \in Ids, b \in Ids : add_partner(a, b)
    \/ \E p \in Ids : delete_person(p)
    \/ save_project
    \/ load_project

SpecSave == Init /\ [][NextSave]_vars

\* C14: save_project followed by load_project in a fresh DataManager of the
\* same project: load_project returns true, and the persons of the graph
\* loaded and their labels are the persons and labels that were saved.
C14_SaveLoadRoundTrip ==
    [][/\ save_project =>
            /\ node_link_graph(project_file').nodes = nodes
            /\ node_link_graph(project_file').label = label
       /\ load_project =>
            /\ ret'.value
            /\ project_file.exists =>
                 /\ nodes' = node_link_graph(project_file).nodes
                 /\ label' = node_link_graph(project_file).label
      ]_vars

\* C14, its case: a project with two persons of different names was saved,
\* and a fresh DataManager has loaded it.
C14_Witness ==
    /\ ret.op = "load_project"
    /\ project_file.exists
    /\ \E a \in nodes, b \in nodes : label[a] = "Adam" /\ label[b] = "Eve"
    /\ node_link_graph(project_file).nodes = nodes

\* ------------------------------------------- properties of the layout

\* A layout was returned for a focus of the graph.
LayoutReturned == ret.op = "calculate_layout" /\ ret.focus \in nodes

\* The horizontal distance of two positioned persons.
x_distance(pos, a, b) ==
    IF pos[a][1] >= pos[b][1] THEN pos[a][1] - pos[b][1] ELSE pos[b][1] - pos[a][1]

\* The recorded parents of the persons S.
parents_of(S) ==
    {p \in nodes : \E n \in S : father[n] = p \/ mother[n] = p}

\* The persons reached from S over any number of father/mother links.
RECURSIVE up_closure(_)
up_closure(S) ==
    IF parents_of(S) \subseteq S THEN S ELSE up_closure(S \cup parents_of(S))

\* The proper ancestors of n.
ancestors_of(n) == up_closure(parents_of({n}))

\* The data model's invariant: no person is its own ancestor.
Acyclic == \A n \in nodes : n \notin ancestors_of(n)

\* C1: calculate_layout on a non-empty graph and a focus of the graph
\* returns a map with a position for every person of the graph, the focus
\* among them.  Stated for the graphs the data model admits, those whose
\* father/mother links have no cycle.
C1_EveryPersonPositioned ==
    LayoutReturned /\ Acyclic => DOMAIN ret.positions = nodes

\* C2: in the map returned, two different persons of the same generation
\* (in the generation map of that focus) are at least NODE_WIDTH +
\* PARTNER_GAP apart in x.
C2_NoOverlap ==
    LayoutReturned =>
        \A a \in DOMAIN ret.positions, b \in DOMAIN ret.positions :
            a # b /\ ret.generations[a] = ret.generations[b]
                => x_distance(ret.positions, a, b) >= (NODE_WIDTH + PARTNER_GAP) * Scale

\* C2, its case: two persons of one generation were placed less than
\* NODE_WIDTH + PARTNER_GAP apart by the loop over the roots, and the map
\* is the one returned after the collision pass.
C2_Witness ==
    /\ LayoutReturned
    /\ \E h \in HashOrders :
        LET placed == unresolved_collisions(place_roots(ret.focus, h), ret.generations)
        IN /\ ret.positions = calculate_layout(ret.focus, h)
           /\ ret.generations = _calculate_all_generations(ret.focus, h)
           /\ \E a \in DOMAIN placed, b \in DOMAIN placed :
                /\ a # b
                /\ ret.generations[a] = ret.generations[b]
                /\ x_distance(placed, a, b) < (NODE_WIDTH + PARTNER_GAP) * Scale

\* The persons one link (father, mother, or an edge of either type, in
\* either direction) away from a person of S.
linked(S) ==
    {n \in nodes : \E m \in S :
        \/ father[n] = m \/ mother[n] = m \/ father[m] = n \/ mother[m] = n
        \/ edge_index(adj, n, m) # 0 \/ edge_index(adj, m, n) # 0}

\* The family tree of n: the persons linked to n over any number of links.
RECURSIVE grow_tree(_)
grow_tree(S) == IF linked(S) \subseteq S THEN S ELSE grow_tree(S \cup linked(S))

tree_of(n) == grow_tree({n})

\* The x-extent of the node rectangles of the persons S in the map pos.
left_edge(pos, S) == MinOf({pos[n][1] : n \in S}) - Half(NODE_WIDTH * Scale)
right_edge(pos, S) == MaxOf({pos[n][1] : n \in S}) + Half(NODE_WIDTH * Scale)

\* C9: when the graph is two family trees without a link between them, the
\* x-extents of the node rectangles of the two trees are at least 2 *
\* NODE_WIDTH apart in the map returned, whichever tree holds the focus.
C9_TreesApart ==
    LayoutReturned =>
        \A a \in nodes, b \in nodes :
            LET A == tree_of(a) \cap DOMAIN ret.positions
                B == tree_of(b) \cap DOMAIN ret.positions
            IN /\ b \notin tree_of(a)
               /\ tree_of(a) \cup tree_of(b) = nodes
               /\ A # {} /\ B # {}
               => \/ left_edge(ret.positions, B) - right_edge(ret.positions, A)
                         >= 2 * NODE_WIDTH * Scale
                  \/ left_edge(ret.positions, A) - right_edge(ret.positions, B)
                         >= 2 * NODE_WIDTH * Scale

\* C10: a second call of calculate_layout on the unchanged graph with the
\* same focus returns the map the first call returned, whatever the order
\* in which the partners of a person are enumerated in either call.
C10_SameMapAgain ==
    LayoutReturned =>
        \A h \in HashOrders : calculate_layout(ret.focus, h) = ret.positions

\* C11: calculate_layout returns None whenever the focus is not a node of
\* the graph or the graph is empty, and a map whenever the focus is a node
\* of the graph.
C11_NoneIffFocusAbsent ==
    ret.op = "calculate_layout" => (ret.none <=> ret.focus \notin nodes)

\* C11, its case: the layout was asked for a focus that is not a node of a
\* graph that has persons, and None came back.
C11_Witness ==
    /\ ret.op = "calculate_layout"
    /\ nodes # {}
    /\ ret.focus \notin nodes
    /\ ret.none

\* C15: in the generation map of a focus, a person whose father or mother
\* attribute names a person of generation g, and who was not reached
\* earlier, has generation g + 1, with or without a child edge from that
\* parent.  Stated for the parent that is dequeued first, the focus
\* (g = 0): the only persons reached before its children are the focus and
\* its own recorded parents.
C15_ChildrenByAttribute ==
    LayoutReturned =>
        \A c \in nodes :
            /\ father[c] = ret.focus \/ mother[c] = ret.focus
            /\ c # ret.focus
            /\ c \notin {father[ret.focus], mother[ret.focus]}
            => ret.generations[c] = 1

\* C16: a father or mother id that names no node is no parent for the
\* layout: it is a key neither of the generation map of the focus nor of
\* the map of positions returned, whose keys are all nodes of the graph.
C16_NoDanglingKeys ==
    LayoutReturned =>
        /\ DOMAIN ret.generations \subseteq nodes
        /\ DOMAIN ret.positions \subseteq nodes

\* The place of x in the sequence seq.
index_of(seq, x) == CHOOSE i \in 1..Len(seq) : seq[i] = x

\* C17: among the effective roots, every root that some path of parent,
\* child or partner links connects to the focus is laid out (gets its
\* position) before every root that no such path connects to the focus.
C17_ConnectedRootsFirst ==
    LayoutReturned =>
        \A a \in Range(ret.roots), b \in Range(ret.roots) :
            /\ a \in Range(ret.placed) /\ b \in Range(ret.placed)
            /\ a \in tree_of(ret.focus) /\ b \notin tree_of(ret.focus)
            => index_of(ret.placed, a) < index_of(ret.placed, b)

\* ------------------------------------------------ the kinship queries

\* The recorded parents <<father, mother>> person i can have when the
\* persons are numbered parents first: nobody, one earlier person, or two
\* different earlier persons.
ParentChoices(i) ==
    {fm \in (0..(i - 1)) \X (0..(i - 1)) : fm[1] = 0 \/ fm[1] # fm[2]}

\* The families of n persons numbered parents first, as the sequences of the
\* parents of the persons 1..n.
RECURSIVE Families(_)
Families(n) ==
    IF n = 0 THEN {<<>>}
    ELSE {Append(g, fm) : g \in Families(n - 1), fm \in ParentChoices(n)}

\* The same families with the last person recorded as the father of the
\* first: add_parent does not prevent a cycle of father links.
CyclicFamilies(n) == {[g EXCEPT ![1] = <<n, 0>>] : g \in Families(n)}

\* The child edges that add_parent adds for the parents g, the children of
\* a person in the order of their ids.
child_adj(g) ==
    [u \in Ids |->
        LET cs == sorted({c \in 1..Len(g) : g[c][1] = u \/ g[c][2] = u})
        IN [i \in 1..Len(cs) |-> <<cs[i], REL_CHILD>>]]

\* The graph add_person and add_parent build for the parents g.
family_graph(g) ==
    [nodes |-> 1..Len(g),
     father |-> [i \in Ids |-> IF i <= Len(g) THEN g[i][1] ELSE 0],
     mother |-> [i \in Ids |-> IF i <= Len(g) THEN g[i][2] ELSE 0],
     adj |-> child_adj(g)]

\* One line of descent: person i + 1 is the child of person i.
chain_graph(n) == family_graph([i \in 1..n |-> <<i - 1, 0>>])

\* create_test_data on an empty project: Adam 1, Eve 2, their children Cain
\* 3, Abel 4 and Seth 5, and Enosh 6, the child of Seth.
test_data_graph ==
    LET g == <<<<0, 0>>, <<0, 0>>, <<1, 2>>, <<1, 2>>, <<1, 2>>, <<5, 0>>>>
        kids == <<<<3, REL_CHILD>>, <<4, REL_CHILD>>, <<5, REL_CHILD>>>>
    IN [family_graph(g) EXCEPT
           !.adj = [u \in Ids |->
                      IF u = 1 THEN <<<<2, REL_PARTNER>>>> \o kids
                      ELSE IF u = 2 THEN <<<<1, REL_PARTNER>>>> \o kids
                      ELSE IF u = 5 THEN <<<<6, REL_CHILD>>>>
                      ELSE <<>>]]

\* The graphs the queries are asked about.
KinGraphs ==
    {family_graph(g) : g \in Families(KinPersons) \cup CyclicFamilies(KinPersons)}
    \cup {chain_graph(ChainLength), test_data_graph}

\* RelationshipCalculator(graph) on the graph g: __init__.
new_calculator(g) ==
    /\ nodes = g.nodes
    /\ father = g.father
    /\ mother = g.mother
    /\ adj = g.adj
    /\ next_person_id = Cardinality(g.nodes) + 1
    /\ label = NoLabels
    /\ issued = <<>>
    /\ project_file = NoFile
    /\ edits = 0
    /\ generation_cache = <<>>
    /\ relationship_cache = <<>>
    /\ ret = NoRet

InitKin == \E g \in KinGraphs : new_calculator(g)

\* A lookup that never finds the pair in the cache.
uncached_generation_level(focus_id, person_id) ==
    get_generation_level(focus_id, person_id)

\* The values get_generation_level(focus_id, person_id) can return with the
\* cache as it is.
cached_generation_level(focus_id, person_id) ==
    IF <<focus_id, person_id>> \in DOMAIN generation_cache
    THEN {generation_cache[<<focus_id, person_id>>]}
    ELSE get_generation_level(focus_id, person_id)

\* A call of get_generation_level(focus_id, person_id).
GetGenerationLevel(focus_id, person_id) ==
    /\ focus_id \in nodes /\ person_id \in nodes
    /\ \E result \in cached_generation_level(focus_id, person_id) :
        /\ generation_cache' =
               (<<focus_id, person_id>> :> result) @@ generation_cache
        /\ ret' = [op |-> "get_generation_level", focus |-> focus_id,
                   person |-> person_id, value |-> result]
    /\ UNCHANGED <<issued, label, project_file, nodes, father, mother, adj, next_person_id, edits, relationship_cache>>

\* A call of get_degree_of_relationship(focus_id, person_id).
GetDegreeOfRelationship(focus_id, person_id) ==
    /\ focus_id \in nodes /\ person_id \in nodes
    /\ ret' = [op |-> "get_degree_of_relationship", focus |-> focus_id,
               person |-> person_id,
               value |-> get_degree_of_relationship(focus_id, person_id)]
    /\ UNCHANGED <<issued, label, project_file, nodes, father, mother, adj, next_person_id, edits,
                   generation_cache, relationship_cache>>

\* A call of get_siblings(person_id).
GetSiblings(person_id) ==
    /\ person_id \in nodes
    /\ ret' = [op |-> "get_siblings", focus |-> person_id, person |-> person_id,
               value |-> get_siblings(person_id)]
    /\ UNCHANGED <<issued, label, project_file, nodes, father, mother, adj, next_person_id, edits,
                   generation_cache, relationship_cache>>

\* A call of get_relationship_type(focus_id, person_id).
GetRelationshipType(focus_id, person_id) ==
    /\ focus_id \in nodes /\ person_id \in nodes
    /\ IF focus_id = person_id
       THEN /\ ret' = [op |-> "get_relationship_type", focus |-> focus_id,
                       person |-> person_id, value |-> <<"self", "Ya", 0>>]
            /\ UNCHANGED <<generation_cache, relationship_cache>>
       ELSE IF <<focus_id, person_id>> \in DOMAIN relationship_cache
       THEN /\ ret' = [op |-> "get_relationship_type", focus |-> focus_id,
                       person |-> person_id,
                       value |-> relationship_cache[<<focus_id, person_id>>]]
            /\ UNCHANGED <<generation_cache, relationship_cache>>
       ELSE \E generation \in cached_generation_level(focus_id, person_id) :
            LET degree == get_degree_of_relationship(focus_id, person_id)
                result == _determine_relationship(focus_id, person_id, generation, degree)
            IN /\ generation_cache' =
                      (<<focus_id, person_id>> :> generation) @@ generation_cache
               /\ relationship_cache' =
                      (<<focus_id, person_id>> :> result) @@ relationship_cache
               /\ ret' = [op |-> "get_relationship_type", focus |-> focus_id,
                          person |-> person_id, value |-> result]
    /\ UNCHANGED <<issued, label, project_file, nodes, father, mother, adj, next_person_id, edits>>

\* render_edit_panel (streamlit_app.py) builds a calculator and asks it one
\* question.
NextKin ==
    \/ \E f \in Ids, p \in Ids : ret = NoRet /\ GetGenerationLevel(f, p)
    \/ \E f \in Ids, p \in Ids : ret = NoRet /\ GetDegreeOfRelationship(f, p)
    \/ \E f \in Ids, p \in Ids : ret = NoRet /\ GetRelationshipType(f, p)
    \/ \E p \in Ids : ret = NoRet /\ GetSiblings(p)

SpecKin == InitKin /\ [][NextKin]_vars

\* The generation level asked of the families of TiePersons persons.
InitTie == \E g \in Families(TiePersons) : new_calculator(family_graph(g))

NextTie == \E f \in Ids, p \in Ids : ret = NoRet /\ GetGenerationLevel(f, p)

SpecTie == InitTie /\ [][NextTie]_vars

\* --------------------- a project file with parent ids that name no person

\* load_project takes the graph as the file gives it: a father or mother
\* attribute of the file can name an id that no node entry has.
LoadedPersons == 3

\* The id without a node.  It has one character, so graph.edges(id) finds no
\* node in it and yields no edge.
Dangling == LoadedPersons + 1

\* The recorded parents person i of such a file can have: nobody, earlier
\* persons, or the id without a node.
LoadedParentChoices(i) ==
    {fm \in ((0..(i - 1)) \cup {Dangling}) \X ((0..(i - 1)) \cup {Dangling}) :
        fm[1] = 0 \/ fm[1] # fm[2]}

RECURSIVE LoadedFamilies(_)
LoadedFamilies(n) ==
    IF n = 0 THEN {<<>>}
    ELSE {Append(g, fm) : g \in LoadedFamilies(n - 1), fm \in LoadedParentChoices(n)}

\* The graph node_link_graph builds for the parents g: the child edges go
\* out of nodes only (a link makes a node of each of its ends).
loaded_graph(g) ==
    [nodes |-> 1..Len(g),
     father |-> [i \in Ids |-> IF i <= Len(g) THEN g[i][1] ELSE 0],
     mother |-> [i \in Ids |-> IF i <= Len(g) THEN g[i][2] ELSE 0],
     adj |-> [u \in Ids |-> IF u <= Len(g) THEN child_adj(g)[u] ELSE <<>>]]

InitLoaded ==
    \E g \in LoadedFamilies(LoadedPersons) :
        /\ nodes = loaded_graph(g).nodes
        /\ father = loaded_graph(g).father
        /\ mother = loaded_graph(g).mother
        /\ adj = loaded_graph(g).adj
        /\ next_person_id = LoadedPersons + 1
        /\ label = NoLabels
        /\ issued = <<>>
        /\ project_file = NoFile
        /\ edits = 0
        /\ generation_cache = <<>>
        /\ relationship_cache = <<>>
        /\ ret = NoRet

NextLoaded ==
    \/ \E f \in Ids, h \in HashOrders : ret = NoRet /\ CalculateLayout(f, h)
    \/ \E a \in Ids, b \in Ids : ret = NoRet /\ add_partner(a, b)

SpecLoaded == InitLoaded /\ [][NextLoaded]_vars

\* ------------------------------------- the roots of a project of five

\* The persons of the project whose roots are laid out.
RootPersons == 5

\* The project after RootPersons calls of add_person and add_parent(last,
\* last but one, 'father'): every person but the last is an effective root.
InitRoots ==
    LET g == family_graph([i \in 1..RootPersons |->
                               IF i = RootPersons THEN <<i - 1, 0>> ELSE <<0, 0>>])
    IN /\ nodes = g.nodes
       /\ father = g.father
       /\ mother = g.mother
       /\ adj = g.adj
       /\ next_person_id = RootPersons + 1
       /\ label = NoLabels
       /\ issued = <<>>
       /\ project_file = NoFile
       /\ edits = 0
       /\ generation_cache = <<>>
       /\ relationship_cache = <<>>
       /\ ret = NoRet

NextRoots ==
    \/ \E f \in Ids, h \in HashOrders : ret = NoRet /\ CalculateLayout(f, h)
    \/ \E a \in Ids, b \in Ids : ret = NoRet /\ add_partner(a, b)

SpecRoots == InitRoots /\ [][NextRoots]_vars

\* --------------------------------- the traversals, one iteration at a time

\* The graphs the traversals start on: the families of LoadedPersons
\* persons, the same with the last person recorded as the father of the
\* first (a cycle of father links and of child edges), and each of these
\* with an id that names no node recorded as the mother of the first
\* person, as a project file can have it.
TraversalFamilies ==
    LET plain == Families(LoadedPersons) \cup CyclicFamilies(LoadedPersons)
    IN plain \cup {[g EXCEPT ![1] = <<g[1][1], Dangling>>] : g \in plain}

TraversalGraphs == {loaded_graph(g) : g \in TraversalFamilies}

InitTraversal ==
    \E g \in TraversalGraphs :
        /\ nodes = g.nodes
        /\ father = g.father
        /\ mother = g.mother
        /\ adj = g.adj
        /\ next_person_id = LoadedPersons + 1
        /\ label = NoLabels
        /\ issued = <<>>
        /\ project_file = NoFile
        /\ edits = 0
        /\ generation_cache = <<>>
        /\ relationship_cache = <<>>
        /\ ret = NoRet

traversal_vars == <<issued, label, project_file, nodes, father, mother, adj, next_person_id, edits, calc_vars>>

\* An iteration of the while loop of _get_all_ancestors_with_depth that
\* takes every recorded parent, a node or not.
ancestors_step_any_id(st) ==
    LET current_id == Head(st.queue)[1]
        depth == Head(st.queue)[2]
        q1 == IF father[current_id] # 0
              THEN Append(Tail(st.queue), <<father[current_id], depth + 1>>)
              ELSE Tail(st.queue)
        q2 == IF mother[current_id] # 0
              THEN Append(q1, <<mother[current_id], depth + 1>>) ELSE q1
    IN IF current_id \in st.visited THEN [st EXCEPT !.queue = Tail(st.queue)]
       ELSE [st EXCEPT !.queue = q2,
                       !.visited = st.visited \cup {current_id},
                       !.trail = Append(st.trail, current_id),
                       !.ancestors = IF current_id # st.person
                                     THEN st.ancestors @@ (current_id :> depth)
                                     ELSE st.ancestors]

\* One iteration of the while loop of _get_all_ancestors_with_depth: the
\* head of the queue is dropped if it was visited, else it is visited,
\* recorded with its depth unless it is the person asked about, and its
\* father and mother are queued if they are nodes.
ancestors_step(st) ==
    LET current_id == Head(st.queue)[1]
        depth == Head(st.queue)[2]
        father_id == father[current_id]
        mother_id == mother[current_id]
        q1 == IF father_id # 0 /\ father_id \in nodes
              THEN Append(Tail(st.queue), <<father_id, depth + 1>>) ELSE Tail(st.queue)
        q2 == IF mother_id # 0 /\ mother_id \in nodes
              THEN Append(q1, <<mother_id, depth + 1>>) ELSE q1
    IN IF current_id \in st.visited THEN [st EXCEPT !.queue = Tail(st.queue)]
       ELSE [st EXCEPT !.queue = q2,
                       !.visited = st.visited \cup {current_id},
                       !.trail = Append(st.trail, current_id),
                       !.ancestors = IF current_id # st.person
                                     THEN st.ancestors @@ (current_id :> depth)
                                     ELSE st.ancestors]

\* _get_all_ancestors_with_depth(person_id) is called.
StartAncestors(person_id) ==
    /\ ret = NoRet
    /\ ret' = [op |-> "_get_all_ancestors_with_depth", person |-> person_id,
               queue |-> <<<<person_id, 0>>>>, visited |-> {}, trail |-> <<>>,
               ancestors |-> <<>>, returned |-> FALSE]
    /\ UNCHANGED traversal_vars

\* Its while loop: an iteration, or the return when the queue is empty.
StepAncestors ==
    /\ ret.op = "_get_all_ancestors_with_depth" /\ ~ret.returned
    /\ ret' = IF ret.queue = <<>> THEN [ret EXCEPT !.returned = TRUE]
              ELSE ancestors_step(ret)
    /\ UNCHANGED traversal_vars

\* An iteration that takes the entry added last, not the one added first.
generations_step_lifo(st) ==
    LET curr == st.q[Len(st.q)][1]
        g == st.q[Len(st.q)][2]
        s0 == [gens |-> st.gens, q |-> SubSeq(st.q, 1, Len(st.q) - 1)]
        s1 == discover(SelectSeq(_get_parents(curr), LAMBDA x : x # 0), g - 1, s0)
        s2 == discover(_get_children(curr), g + 1, s1)
        s3 == discover(list_of(_get_partners(curr), st.h), g, s2)
    IN [st EXCEPT !.gens = s3.gens, !.q = s3.q, !.trail = Append(st.trail, curr)]

\* One iteration of the while loop of _calculate_all_generations.
generations_step(st) ==
    LET curr == Head(st.q)[1]
        g == Head(st.q)[2]
        s0 == [gens |-> st.gens, q |-> Tail(st.q)]
        s1 == discover(SelectSeq(_get_parents(curr), LAMBDA x : x # 0), g - 1, s0)
        s2 == discover(_get_children(curr), g + 1, s1)
        s3 == discover(list_of(_get_partners(curr), st.h), g, s2)
    IN [st EXCEPT !.gens = s3.gens, !.q = s3.q, !.trail = Append(st.trail, curr)]

\* _calculate_all_generations(graph, focus_id) is called.
StartGenerations(focus_id, h) ==
    /\ ret = NoRet
    /\ ret' = [op |-> "_calculate_all_generations", focus |-> focus_id, h |-> h,
               gens |-> (focus_id :> 0), q |-> <<<<focus_id, 0>>>>, trail |-> <<>>,
               returned |-> FALSE]
    /\ UNCHANGED traversal_vars

\* Its while loop: an iteration, or, when the queue is empty, the loop that
\* gives 0 to the nodes without a generation, and the return.
StepGenerations ==
    /\ ret.op = "_calculate_all_generations" /\ ~ret.returned
    /\ ret' = IF ret.q = <<>>
              THEN [ret EXCEPT !.returned = TRUE,
                               !.gens = [n \in DOMAIN ret.gens \cup nodes |->
                                            gen_get0(ret.gens, n)]]
              ELSE generations_step(ret)
    /\ UNCHANGED traversal_vars

\* A call of _is_connected_to that does not add start to visited.
connected_step_unvisited(st) ==
    LET start == Head(st.stack) IN
    IF start = st.target THEN [st EXCEPT !.found = TRUE, !.returned = TRUE]
    ELSE [st EXCEPT !.trail = Append(st.trail, start),
                    !.stack = _get_children(start)
                                  \o list_of(_get_partners(start), st.h)
                                  \o Tail(st.stack)]

\* One call of _is_connected_to(graph, start, target, visited), start being
\* the top of the stack of the calls still to make: True ends all the calls
\* at once; a visited start returns False; else start is visited and the
\* calls for its children, then for its partners, come next.
connected_step(st) ==
    LET start == Head(st.stack) IN
    IF start = st.target THEN [st EXCEPT !.found = TRUE, !.returned = TRUE]
    ELSE IF start \in st.visited THEN [st EXCEPT !.stack = Tail(st.stack)]
    ELSE [st EXCEPT !.visited = st.visited \cup {start},
                    !.trail = Append(st.trail, start),
                    !.stack = _get_children(start)
                                  \o list_of(_get_partners(start), st.h)
                                  \o Tail(st.stack)]

\* _is_connected_to(graph, start, target, set()) is called for a root.
StartConnected(start, target, h) ==
    /\ ret = NoRet
    /\ start \in Range(_find_effective_roots)
    /\ ret' = [op |-> "_is_connected_to", start |-> start, target |-> target, h |-> h,
               stack |-> <<start>>, visited |-> {}, trail |-> <<>>,
               found |-> FALSE, returned |-> FALSE]
    /\ UNCHANGED traversal_vars

StepConnected ==
    /\ ret.op = "_is_connected_to" /\ ~ret.returned
    /\ ret' = IF ret.stack = <<>> THEN [ret EXCEPT !.returned = TRUE]
              ELSE connected_step(ret)
    /\ UNCHANGED traversal_vars

\* One call of _layout_tree(graph, node_id, ...), node_id being the top of
\* the stack of the calls still to make (the roots, then the children of
\* each family before what was left): a visited node returns at once; else
\* the node and its unvisited partners of its generation are visited as a
\* family, and the calls for their unvisited children, sorted, come next.
layout_tree_step(st) ==
    LET node_id == Head(st.stack)
        gen == gen_get0(st.generations, node_id)
        partners == SelectSeq(list_of(_get_partners(node_id), st.h),
                        LAMBDA p : p \notin st.visited /\ gen_get(st.generations, p) = <<gen>>)
        family == <<node_id>> \o partners
        visited1 == st.visited \cup Range(family)
        all_children == UNION {Range(_get_children(parent)) : parent \in Range(family)}
        children_list == sorted({c \in all_children : c \notin visited1})
    IN IF node_id \in st.visited THEN [st EXCEPT !.stack = Tail(st.stack)]
       ELSE [st EXCEPT !.visited = visited1,
                       !.trail = st.trail \o family,
                       !.stack = children_list \o Tail(st.stack)]

\* calculate_layout(graph, focus_node_id) has the generations and the sorted
\* roots, and starts its loop over the roots.
StartLayoutTree(focus_node_id, h) ==
    /\ ret = NoRet
    /\ focus_node_id \in nodes
    /\ ret' = [op |-> "_layout_tree", focus |-> focus_node_id, h |-> h,
               generations |-> _calculate_all_generations(focus_node_id, h),
               stack |-> sort_roots(_find_effective_roots, focus_node_id, h),
               visited |-> {}, trail |-> <<>>, returned |-> FALSE]
    /\ UNCHANGED traversal_vars

StepLayoutTree ==
    /\ ret.op = "_layout_tree" /\ ~ret.returned
    /\ ret' = IF ret.stack = <<>> THEN [ret EXCEPT !.returned = TRUE]
              ELSE layout_tree_step(ret)
    /\ UNCHANGED traversal_vars

NextTraversal ==
    \/ \E a \in Ids, b \in Ids : ret = NoRet /\ edits = 0 /\ add_partner(a, b)
    \/ \E p \in nodes : StartAncestors(p)
    \/ StepAncestors
    \/ \E f \in nodes, h \in HashOrders : StartGenerations(f, h)
    \/ StepGenerations
    \/ \E r \in nodes, f \in nodes, h \in HashOrders : StartConnected(r, f, h)
    \/ StepConnected
    \/ \E f \in nodes, h \in HashOrders : StartLayoutTree(f, h)
    \/ StepLayoutTree

SpecTraversal == InitTraversal /\ [][NextTraversal]_vars

\* The next iteration of the traversal under way.
TraversalStep == StepAncestors \/ StepGenerations \/ StepConnected \/ StepLayoutTree

\* A call that was started goes on: the program runs one call at a time and
\* nothing holds its loop back.
FairTraversal == SpecTraversal /\ WF_vars(TraversalStep)

\* -------------------------------- one calculator on a graph that changes

\* clear_cache(): both caches are emptied.
clear_cache ==
    /\ generation_cache' = <<>>
    /\ relationship_cache' = <<>>
    /\ ret' = NoRet
    /\ UNCHANGED <<issued, label, project_file, nodes, father, mother, adj, next_person_id, edits>>

\* A calculator built on the graph of CachePersons persons without links;
\* the DataManager edits that graph, which the calculator refers to, while
\* the calculator lives.
InitCache == new_calculator(family_graph([i \in 1..CachePersons |-> <<0, 0>>]))

\* The calculator has room for the answer for the pair.
room_for(cache, focus_id, person_id) ==
    \/ <<focus_id, person_id>> \in DOMAIN cache
    \/ Cardinality(DOMAIN cache) < MaxCached

NextCache ==
    \/ \E f \in Ids, p \in Ids :
          room_for(generation_cache, f, p) /\ GetGenerationLevel(f, p)
    \/ \E f \in Ids, p \in Ids :
          room_for(generation_cache, f, p) /\ GetRelationshipType(f, p)
    \/ clear_cache
    \/ \E c \in Ids, p \in Ids, t \in {"father", "mother"} : add_parent(c, p, t)
    \/ \E a \in Ids, b \in Ids : add_partner(a, b)

SpecCache == InitCache /\ [][NextCache]_vars

\* ---------------------------------- properties of the kinship queries

\* The number of father/mother links on the shortest line from a person of
\* S up to the target, k links being counted already; 0 when there is none.
RECURSIVE hops_from(_, _, _)
hops_from(S, target, k) ==
    IF target \in S THEN k
    ELSE IF S = {} \/ k > Cardinality(nodes) THEN 0
    ELSE hops_from(parents_of(S), target, k + 1)

\* The shortest hop distance from n up to its ancestor a, 0 when a is no
\* ancestor of n.
hop_distance(n, a) == hops_from(parents_of({n}), a, 1)

\* A query about two persons was answered.
KinAnswered(op) == ret.op = op

\* C3: generation_level(p, p) = 0 for every person p.  Stated for the
\* graphs the data model admits, those without a cycle of father/mother
\* links.
C3_SelfGenerationZero ==
    KinAnswered("get_generation_level") /\ ret.focus = ret.person /\ Acyclic
        => ret.value = 0

\* C4: for related persons a and b (generation_level is not 999),
\* generation_level(a, b) = -generation_level(b, a), whichever common
\* ancestor the search picks in either direction.
C4_Antisymmetric ==
    KinAnswered("get_generation_level") /\ ret.value # Unrelated /\ Acyclic
        => \A v \in get_generation_level(ret.person, ret.focus) : v = 0 - ret.value

\* C5 as stated: degree_of_relationship(a, b) = degree_of_relationship(b, a)
\* for every pair of persons of the graph.
C5_DegreeSymmetric ==
    KinAnswered("get_degree_of_relationship")
        => get_degree_of_relationship(ret.person, ret.focus) = ret.value

\* C5, amended: degree_of_relationship(a, b) = degree_of_relationship(b, a)
\* for every pair of persons of a graph whose father/mother links have no
\* cycle.
C5_DegreeSymmetricAcyclic ==
    Acyclic => C5_DegreeSymmetric

\* C5, its case: in a graph without a cycle, the degree of two persons
\* neither of whom is an ancestor of the other, related over a common
\* ancestor at different depths.
C5_Witness ==
    /\ KinAnswered("get_degree_of_relationship")
    /\ Acyclic
    /\ hop_distance(ret.focus, ret.person) = 0
    /\ hop_distance(ret.person, ret.focus) = 0
    /\ ret.value = 3

\* The generation level the answered get_relationship_type call worked with.
generation_used == generation_cache[<<ret.focus, ret.person>>]

\* C6: for a person who is a sibling of a parent of the focus (generation
\* level -1, degree 3, not a partner) relationship_type is 'extended' with
\* the aunt/uncle label, and in the mirrored direction (generation level 1,
\* degree 3) 'extended' with the niece/nephew label.
C6_AuntUncle ==
    /\ KinAnswered("get_relationship_type")
    /\ ret.focus # ret.person
    /\ Acyclic
    /\ ret.person \notin get_partners(ret.focus)
    /\ get_degree_of_relationship(ret.focus, ret.person) = 3
    => /\ generation_used = -1 => ret.value = <<"extended", "Dyadko/Titka", 0>>
       /\ generation_used = 1 => ret.value = <<"extended", "Pleminnyk/Pleminnytsya", 0>>

\* What the queries answer for a lineal relative at hop distance d: the
\* degree is d, the category is the one given up to degree 10 and 'distant'
\* beyond.
lineal_answer(d, category) ==
    /\ KinAnswered("get_degree_of_relationship") => ret.value = d
    /\ KinAnswered("get_relationship_type")
           => ret.value[1] = IF d <= 10 THEN category ELSE "distant"

\* C7 as stated: for a proper ancestor of the focus at shortest hop
\* distance d who is not a partner of the focus, the degree is d and the
\* category 'parent' for d <= 10 and 'distant' for d > 10; for a descendant
\* of the focus the degree is d and the category 'child' in the same way.
C7_LinealKin ==
    /\ KinAnswered("get_degree_of_relationship") \/ KinAnswered("get_relationship_type")
    /\ ret.focus # ret.person
    /\ ret.person \notin get_partners(ret.focus)
    => /\ hop_distance(ret.focus, ret.person) > 0
            => lineal_answer(hop_distance(ret.focus, ret.person), "parent")
       /\ hop_distance(ret.person, ret.focus) > 0
            => lineal_answer(hop_distance(ret.person, ret.focus), "child")

\* C7, amended: the same in a graph whose father/mother links have no
\* cycle.
C7_LinealKinAcyclic ==
    Acyclic => C7_LinealKin

\* C7, its case: the relationship type of an ancestor more than ten
\* generations up is 'distant'.
C7_Witness ==
    /\ KinAnswered("get_relationship_type")
    /\ Acyclic
    /\ ret.person \notin get_partners(ret.focus)
    /\ hop_distance(ret.focus, ret.person) > 10
    /\ ret.value[1] = "distant"

\* Two different persons with the same recorded father and the same
\* recorded mother, both in the graph.
full_siblings(a, b) ==
    /\ a # b
    /\ father[a] \in nodes /\ father[a] = father[b]
    /\ mother[a] \in nodes /\ mother[a] = mother[b]

\* A query about two full siblings: no cycle of parent links, and the
\* two are not partners of each other.
sibling_query ==
    /\ ret.op # "none"
    /\ full_siblings(ret.focus, ret.person)
    /\ Acyclic
    /\ ret.person \notin get_partners(ret.focus)
    /\ ret.focus \notin get_partners(ret.person)

\* C8: for full siblings (no cycle of parent links, not partners of each
\* other) generation_level is 0, degree_of_relationship is 2 and
\* relationship_type is 'sibling' with the brother/sister label, in both
\* argument orders.
C8_FullSiblings ==
    sibling_query =>
        /\ KinAnswered("get_generation_level") => ret.value = 0
        /\ KinAnswered("get_degree_of_relationship") => ret.value = 2
        /\ KinAnswered("get_relationship_type")
               => ret.value = <<"sibling", "Brat/Sestra", 0>>

\* C8, its case: the relationship type of a full sibling was asked for.
C8_Witness ==
    sibling_query /\ KinAnswered("get_relationship_type") /\ ret.value[1] = "sibling"

\* Two different persons, neither an ancestor of the other, without a
\* common ancestor.
unrelated(a, b) ==
    /\ a # b
    /\ b \notin ancestors_of(a)
    /\ a \notin ancestors_of(b)
    /\ ancestors_of(a) \cap ancestors_of(b) = {}

\* C12: for two different persons, neither an ancestor of the other, whose
\* sets of ancestors are disjoint, generation_level and
\* degree_of_relationship both return 999, in both argument orders.
C12_UnrelatedSentinel ==
    /\ KinAnswered("get_generation_level") \/ KinAnswered("get_degree_of_relationship")
    /\ unrelated(ret.focus, ret.person)
    => ret.value = 999

\* C12, its case: the degree of two unrelated persons who both have
\* ancestors in the graph.
C12_Witness ==
    /\ KinAnswered("get_degree_of_relationship")
    /\ unrelated(ret.focus, ret.person)
    /\ ancestors_of(ret.focus) # {}
    /\ ancestors_of(ret.person) # {}
    /\ ret.value = 999

\* Every entry of the cache before the step is an entry after it.
entries_kept(cache_before, cache_after) ==
    \A k \in DOMAIN cache_before :
        k \in DOMAIN cache_after /\ cache_after[k] = cache_before[k]

\* The relationship types that can be computed for the pair from the graph
\* as it is, by a calculator with empty caches.
fresh_relationship_types(f, p) ==
    {_determine_relationship(f, p, g, get_degree_of_relationship(f, p)) :
        g \in get_generation_level(f, p)}

\* C13: an answer given for generation_level(f, p) or relationship_type(f, p)
\* (f # p) is kept by the calculator and given again however the parent and
\* partner data change, until clear_cache; clear_cache empties both caches,
\* and the answer given for a pair that is in no cache is computed from the
\* graph as it is.
C13_CachedAnswers ==
    [][/\ clear_cache => generation_cache' = <<>> /\ relationship_cache' = <<>>
       /\ ~clear_cache => /\ entries_kept(generation_cache, generation_cache')
                          /\ entries_kept(relationship_cache, relationship_cache')
       /\ \A f \in nodes, p \in nodes :
            LET k == <<f, p>> IN
            f # p =>
            /\ GetGenerationLevel(f, p) =>
                 /\ generation_cache'[k] = ret'.value
                 /\ IF k \in DOMAIN generation_cache
                    THEN ret'.value = generation_cache[k]
                    ELSE ret'.value \in get_generation_level(f, p)
            /\ GetRelationshipType(f, p) =>
                 /\ relationship_cache'[k] = ret'.value
                 /\ IF k \in DOMAIN relationship_cache
                    THEN ret'.value = relationship_cache[k]
                    ELSE k \notin DOMAIN generation_cache
                             => ret'.value \in fresh_relationship_types(f, p)
      ]_vars

\* C13, its case: the generation level of a pair was asked again after the
\* graph had changed, and the answer is the cached one, which the graph as
\* it is no longer gives.
C13_Witness ==
    /\ KinAnswered("get_generation_level")
    /\ ret.focus # ret.person
    /\ edits > 0
    /\ generation_cache[<<ret.focus, ret.person>>] = ret.value
    /\ ret.value \notin get_generation_level(ret.focus, ret.person)

\* The persons who are ancestors of both a and b.
shared_ancestors(a, b) ==
    {c \in nodes : hop_distance(a, c) > 0 /\ hop_distance(b, c) > 0}

\* The links from a up to c and from b up to c, together.
kin_distance(a, b, c) == hop_distance(a, c) + hop_distance(b, c)

\* The least kin_distance over the shared ancestors of a and b.
least_kin_distance(a, b) ==
    MinOf({kin_distance(a, b, c) : c \in shared_ancestors(a, b)})

\* C18 as stated: for distinct focus and person the degree is the hop
\* distance d when one is an ancestor of the other at shortest distance d;
\* otherwise, when they share ancestors, it is the least sum of the two
\* depths, and the generation level is depth_person - depth_focus of a
\* shared ancestor of least sum.  For related persons |generation level| <=
\* degree and degree - generation level is even; the generation level is
\* 999 exactly when the degree is.
C18_DegreeAndGeneration ==
    LET f == ret.focus
        p == ret.person
        lineal == hop_distance(f, p) > 0 \/ hop_distance(p, f) > 0
        degree == get_degree_of_relationship(f, p)
    IN /\ KinAnswered("get_degree_of_relationship") /\ f # p =>
            /\ hop_distance(f, p) > 0 => ret.value = hop_distance(f, p)
            /\ hop_distance(p, f) > 0 => ret.value = hop_distance(p, f)
            /\ ~lineal /\ shared_ancestors(f, p) # {}
                   => ret.value = least_kin_distance(f, p)
       /\ KinAnswered("get_generation_level") /\ f # p =>
            /\ ~lineal /\ shared_ancestors(f, p) # {} =>
                   \E c \in shared_ancestors(f, p) :
                       /\ kin_distance(f, p, c) = least_kin_distance(f, p)
                       /\ ret.value = hop_distance(p, c) - hop_distance(f, c)
            /\ degree # Unrelated =>
                   /\ ret.value <= degree /\ 0 - ret.value <= degree
                   /\ (degree - ret.value) % 2 = 0
            /\ ret.value = Unrelated <=> degree = Unrelated

\* C18, amended: the same in a graph whose father/mother links have no
\* cycle, where at most one of two persons is an ancestor of the other.
C18_DegreeAndGenerationAcyclic ==
    Acyclic => C18_DegreeAndGeneration

\* C18, its case: in a graph without a cycle, the generation level of two
\* persons neither of whom is an ancestor of the other, who share two
\* ancestors of different sums of depths, the farther of them at another
\* difference of depths than the level answered.
C18_Witness ==
    /\ KinAnswered("get_generation_level")
    /\ Acyclic
    /\ hop_distance(ret.focus, ret.person) = 0
    /\ hop_distance(ret.person, ret.focus) = 0
    /\ \E c \in shared_ancestors(ret.focus, ret.person) :
           /\ kin_distance(ret.focus, ret.person, c) > least_kin_distance(ret.focus, ret.person)
           /\ hop_distance(ret.person, c) - hop_distance(ret.focus, c) # ret.value

\* A traversal has returned.
Returned(op) == ret.op = op /\ ret.returned

\* C19: _get_all_ancestors_with_depth(p) returns exactly the nodes other
\* than p that one or more father/mother links lead to from p, each with
\* its shortest hop count: p is no key, and an id that is not a node is no
\* key.
C19_AncestorsWithDepth ==
    Returned("_get_all_ancestors_with_depth") =>
        /\ DOMAIN ret.ancestors =
               {c \in nodes \ {ret.person} : hop_distance(ret.person, c) > 0}
        /\ \A c \in DOMAIN ret.ancestors : ret.ancestors[c] = hop_distance(ret.person, c)
        /\ ret.person \notin DOMAIN ret.ancestors
        /\ DOMAIN ret.ancestors \subseteq nodes

\* C19, its case: the ancestors of a person on a cycle of father/mother
\* links were returned, one of them or the person having a recorded parent
\* that is not a node.
C19_Witness ==
    /\ Returned("_get_all_ancestors_with_depth")
    /\ ret.person \in ancestors_of(ret.person)
    /\ DOMAIN ret.ancestors # {}
    /\ \E c \in DOMAIN ret.ancestors \cup {ret.person} :
           father[c] = Dangling \/ mother[c] = Dangling

\* No person appears twice in the sequence.
no_revisit(trail) == \A i \in 1..Len(trail), j \in 1..Len(trail) : trail[i] = trail[j] => i = j

\* C20: each traversal (the ancestors, the generations, the connectivity of
\* a root, the placement of the subtrees) visits a person at most once, and
\* each traversal that was started returns, on graphs with cycles of
\* father/mother links and of child edges too.
C20_TraversalsTerminate ==
    /\ [](ret.op # "none" => no_revisit(ret.trail))
    /\ (ret.op # "none") ~> (ret.op # "none" /\ ret.returned)

\* C20, its case: the placement of the subtrees has returned on a graph
\* with a cycle of father/mother links, every person visited.
C20_Witness ==
    /\ Returned("_layout_tree")
    /\ ~Acyclic
    /\ nodes \subseteq Range(ret.trail)

\* b is a partner of a: a has a partner edge to b, or b is the other
\* recorded parent of a person whose father or mother is a.
partner_of(a, b) ==
    \/ \E i \in 1..Len(adj[a]) : adj[a][i] = <<b, REL_PARTNER>>
    \/ \E c \in nodes : /\ father[c] = a \/ mother[c] = a
                        /\ father[c] = b \/ mother[c] = b

\* C21: for distinct focus and person, relationship_type has the category
\* 'partner' exactly when the person is a partner of the focus, blood
\* relatives or not.
C21_PartnerFirst ==
    KinAnswered("get_relationship_type") /\ ret.focus # ret.person
        => (ret.value[1] = "partner" <=> partner_of(ret.focus, ret.person))

\* C21, its case: the person is a parent of the focus and the other parent
\* of a child of the focus, and the answer is 'partner'.
C21_Witness ==
    /\ KinAnswered("get_relationship_type")
    /\ ret.focus # ret.person
    /\ hop_distance(ret.focus, ret.person) = 1
    /\ partner_of(ret.focus, ret.person)
    /\ ret.value[1] = "partner"

\* The middle of the x-extent of the persons of unit in positions.
extent_middle(positions, unit) ==
    LET xs == {value(positions, n)[1] : n \in unit}
    IN Half(MinOf(xs) + MaxOf(xs))

\* The call of _layout_tree that placed the family of node_id.
call_of(calls, node_id) ==
    calls[CHOOSE i \in 1..Len(calls) : calls[i].node_id = node_id]

\* The family centre of a placed child: the middle of the x-extent of the
\* child and the partners of its generation placed with it.
family_center(calls, child_id) ==
    LET c == call_of(calls, child_id)
    IN extent_middle(c.positions, Range(c.family))

before_pos(n) == value(ret.before, n)
placed_before == keys(ret.before)

\* a is left of b in their generation before the pass, with nobody of the
\* generation at the x of either or between them.
neighbours_before(a, b) ==
    /\ ret.generations[a] = ret.generations[b]
    /\ before_pos(a)[1] < before_pos(b)[1]
    /\ \A c \in placed_before \ {a, b} :
           ret.generations[c] = ret.generations[a]
               => \/ before_pos(c)[1] < before_pos(a)[1]
                  \/ before_pos(c)[1] > before_pos(b)[1]

\* C23: _resolve_collisions gives a position to the persons that had one,
\* changes no y, moves nobody to the left and keeps the left-to-right order
\* inside each generation; two neighbours closer than NODE_WIDTH +
\* PARTNER_GAP end that distance plus 2 apart, other neighbours keep their
\* distance, and in each generation one leftmost person stays in place.
C23_PushRightOnly ==
    LayoutReturned =>
        LET min_dist == (NODE_WIDTH + PARTNER_GAP) * Scale IN
        /\ DOMAIN ret.positions = placed_before
        /\ \A n \in placed_before :
               /\ ret.positions[n][2] = before_pos(n)[2]
               /\ ret.positions[n][1] >= before_pos(n)[1]
               /\ \E m \in placed_before :
                      /\ ret.generations[m] = ret.generations[n]
                      /\ before_pos(m)[1] <= before_pos(n)[1]
                      /\ ret.positions[m] = before_pos(m)
        /\ \A a \in placed_before, b \in placed_before :
               /\ ret.generations[a] = ret.generations[b]
                     /\ before_pos(a)[1] < before_pos(b)[1]
                  => ret.positions[a][1] < ret.positions[b][1]
               /\ neighbours_before(a, b)
                  => ret.positions[b][1] - ret.positions[a][1]
                       = IF before_pos(b)[1] - before_pos(a)[1] < min_dist
                         THEN min_dist + 2 * Scale
                         ELSE before_pos(b)[1] - before_pos(a)[1]

\* C23, its case: two neighbours of a generation placed closer than
\* NODE_WIDTH + PARTNER_GAP, the right one pushed.
C23_Witness ==
    /\ LayoutReturned
    /\ \E a \in placed_before, b \in placed_before :
           /\ neighbours_before(a, b)
           /\ before_pos(b)[1] - before_pos(a)[1] < (NODE_WIDTH + PARTNER_GAP) * Scale
           /\ ret.positions[b][1] > before_pos(b)[1]

\* The generations b can get when it is discovered from a of generation
\* g: g - 1 as a parent, g + 1 as a child, g as a partner.
discovered_from(a, g, b) ==
    {g - 1 : x \in {y \in Range(_get_parents(a)) : y = b /\ y # 0}}
        \cup {g + 1 : x \in {y \in Range(_get_children(a)) : y = b}}
        \cup {g : x \in {y \in _get_partners(a) : y = b}}

\* The persons a chain of such discoveries leads to from S.
RECURSIVE discoverable(_)
discoverable(S) ==
    LET more == S \cup {b \in nodes \cup {Dangling} :
                           \E a \in S : discovered_from(a, 0, b) # {}}
    IN IF more = S THEN S ELSE discoverable(more)

\* One iteration of the loop of _calculate_all_generations is taken.
generations_iteration ==
    /\ ret.op = "_calculate_all_generations"
    /\ ~ret.returned
    /\ ret.q # <<>>
    /\ ret' # ret

\* C24: the focus has generation 0; an iteration takes the first entry
\* (curr, g) of the queue, changes no generation given before, gives a
\* generation to exactly the parents, children and partners of curr that
\* had none (g - 1, g + 1 or g by the way they are discovered) and adds them
\* at the end of the queue; the map returned has one generation for every
\* node, 0 for every node that no chain of discoveries leads to.
C24_FirstDiscovery ==
    /\ [](ret.op = "_calculate_all_generations" =>
            /\ ret.gens[ret.focus] = 0
            /\ ret.returned =>
                  /\ nodes \subseteq DOMAIN ret.gens
                  /\ \A n \in nodes : ret.gens[n] \in Int
                  /\ \A n \in nodes \ discoverable({ret.focus}) : ret.gens[n] = 0
                  /\ \A n \in DOMAIN ret.gens : n \in discoverable({ret.focus}) \cup nodes)
    /\ [][generations_iteration =>
            LET curr == Head(ret.q)[1]
                g == Head(ret.q)[2]
                new == DOMAIN ret'.gens \ DOMAIN ret.gens
                added == SubSeq(ret'.q, Len(ret.q), Len(ret'.q))
            IN /\ \A k \in DOMAIN ret.gens :
                      k \in DOMAIN ret'.gens /\ ret'.gens[k] = ret.gens[k]
               /\ new = {b \in (nodes \cup {Dangling}) \ DOMAIN ret.gens :
                            discovered_from(curr, g, b) # {}}
               /\ \A k \in new : ret'.gens[k] \in discovered_from(curr, g, k)
               /\ SubSeq(ret'.q, 1, Len(ret.q) - 1) = Tail(ret.q)
               /\ Len(added) = Cardinality(new)
               /\ \A k \in new : \E i \in 1..Len(added) : added[i] = <<k, ret'.gens[k]>>
         ]_vars

\* C24, its case: the map was returned with a parent of the focus at -1
\* and a node that no chain of discoveries leads to at 0.
C24_Witness ==
    /\ Returned("_calculate_all_generations")
    /\ \E n \in nodes : n \in Range(_get_parents(ret.focus)) /\ ret.gens[n] = -1
    /\ \E n \in nodes \ discoverable({ret.focus}) : ret.gens[n] = 0

\* q counts as a sibling of p by what is recorded for p: by both parents
\* when p has both, by the one parent p has, in its role, otherwise.
sibling_by_record(p, q) ==
    /\ q # p
    /\ father[p] # 0 \/ mother[p] # 0
    /\ father[p] # 0 => father[q] = father[p]
    /\ mother[p] # 0 => mother[q] = mother[p]

\* C25: get_siblings(p) returns exactly the other persons q with the
\* father and the mother of p when p has both recorded, with the one parent
\* of p in the same role when p has one recorded; it is empty when p has no
\* parent recorded and never contains p.
C25_SiblingsExact ==
    KinAnswered("get_siblings") =>
        /\ ret.value = {q \in nodes : sibling_by_record(ret.person, q)}
        /\ father[ret.person] = 0 /\ mother[ret.person] = 0 => ret.value = {}
        /\ ret.person \notin ret.value

\* C25, its case: the person has both parents recorded, a full sibling who
\* is returned and a half sibling who is not.
C25_Witness ==
    /\ KinAnswered("get_siblings")
    /\ father[ret.person] # 0 /\ mother[ret.person] # 0
    /\ ret.value # {}
    /\ \E q \in nodes \ (ret.value \cup {ret.person}) : father[q] = father[ret.person]

\* C26: relationship_type(focus, person) has the category 'parent' only
\* when the person is a proper ancestor of the focus through father/mother
\* links, and 'child' only when the person is a proper descendant of the
\* focus.  Stated for the graphs without a cycle of father/mother links.
C26_LinealCategories ==
    KinAnswered("get_relationship_type") /\ ret.focus # ret.person /\ Acyclic
        => /\ ret.value[1] = "parent" => hop_distance(ret.focus, ret.person) > 0
           /\ ret.value[1] = "child" => hop_distance(ret.person, ret.focus) > 0

C28_WidthBoundsExtent ==
    LayoutReturned =>
        \A i \in 1..Len(ret.calls) :
            LET c == ret.calls[i] IN
            \A n \in keys(c.positions) :
                /\ c.x_offset + Half(NODE_WIDTH * Scale) <= value(c.positions, n)[1]
                /\ value(c.positions, n)[1] <= c.x_offset + c.width - Half(NODE_WIDTH * Scale)

\* The graph has an edge a -> b of the type.
has_edge_of_type(a, b, t) == \E i \in 1..Len(adj[a]) : adj[a][i] = <<b, t>>

\* C29: after any sequence of add_person, add_partner, add_parent,
\* add_child and delete_person the graph has an edge a -> b of type partner
\* exactly when it has an edge b -> a of type partner.
C29_PartnerEdgesSymmetric ==
    \A a \in nodes, b \in nodes :
        has_edge_of_type(a, b, REL_PARTNER) <=> has_edge_of_type(b, a, REL_PARTNER)

\* C30: across add_person, delete_person, save_project and load_project on
\* one project every id returned by add_person is greater than every id
\* returned before it: the id of a deleted person is not given again.
C30_IdsNeverReused ==
    \A i \in 1..Len(issued), j \in 1..Len(issued) : i < j => issued[i] < issued[j]
====
